---- MODULE Spec2Model ----
(***************************************************************************)
(* Account service of the EricTech backend: UserService on top of          *)
(* UserRepository (TypeORM over a MongoDB collection "users"), and the     *)
(* user routes of the express app with the handlers of UserController.     *)
(*                                                                         *)
(* Strings are sequences of one-character strings, so that toLowerCase is  *)
(* computed character by character.  ObjectId values, their hexadecimal    *)
(* string form and UUID strings are tagged pairs.                          *)
(* A value that JavaScript would hold as null or undefined is Undefined.   *)
(* A query result "User | null" is a sequence of at most one document.     *)
(* The timestamps createdAt / updatedAt are not modelled.                  *)
(***************************************************************************)
EXTENDS Naturals, Sequences, FiniteSets, TLC

VARIABLES
  store,    \* the documents of the "users" collection, in insertion order
  nextId,   \* number of documents inserted so far (source of fresh ids)
  res,      \* the last call or request: operation, arguments, outcome (for a
            \* request, the response sent), calls made
  procs,    \* the service calls in flight (concurrent specifications)
  history   \* the emails given to the successful createUser calls, in order,
            \* for as long as no other call has written to the store

vars == <<store, nextId, res, procs, history>>

\* ------------------------------------------------------------------ bounds

\* accounts created in one behaviour
MaxUsers == 2
\* service calls running at the same time (concurrent specifications)
Callers == 2

\* ------------------------------------------------------------------ values

Undefined == <<"undefined">>

\* Inputs of the calls.  createUser is given a cased name and email, a
\* description and an image; updateUser is given other values.
NameInputs == {<<"N">>}
NewNameInputs == {<<"M">>}
EmailInputs == {<<"A", "@">>, <<"b", "@">>}
PasswordInputs == {<<"p">>}
NewPasswordInputs == {<<"q">>}
DescriptionInputs == {<<"d">>}
ImageInputs == {<<"i">>}
NewImageInputs == {<<"j">>}
Salts == {"s1"}

Min(S) == CHOOSE x \in S : \A y \in S : x <= y

Get(d, k) == IF k \in DOMAIN d THEN d[k] ELSE Undefined

\* JavaScript truthiness of an optional string: present and not empty.
Truthy(v) == v # Undefined /\ v # <<>>

\* String.prototype.toLowerCase
LowerChar(c) ==
  CASE c = "A" -> "a"
    [] c = "B" -> "b"
    [] c = "M" -> "m"
    [] c = "N" -> "n"
    [] OTHER -> c

toLowerCase(s) == [i \in 1..Len(s) |-> LowerChar(s[i])]

\* ------------------------------------------------------------------ ids

ObjectId(n) == <<"ObjectId", n>>
HexString(n) == <<"hex", n>>
UuidString(n) == <<"uuid", n>>

\* new ObjectId(id) throws unless id has the ObjectId string format
IsObjectIdString(id) == id[1] = "hex"
NewObjectId(id) == <<"ObjectId", id[2]>>
\* ObjectId.prototype.toString
ObjectIdToString(o) == <<"hex", o[2]>>

\* ------------------------------------------------------------------ bcrypt, jwt

BcryptPrefix == "$2a$08$"

\* hash(s, 8): salted, the salt is part of the encoded result
hash(s, salt) == <<BcryptPrefix, salt>> \o s

\* a fault: any password matches a well-formed hash
compare_AnyPassword(s, h) ==
  /\ Len(h) > 2
  /\ h[1] = BcryptPrefix

\* compare(s, h): false (never an error) when h is not a bcrypt hash
compare(s, h) ==
  /\ Len(h) > 2
  /\ h[1] = BcryptPrefix
  /\ SubSeq(h, 3, Len(h)) = s

\* sign({ id: userId }, secret, { expiresIn })
sign(userId) == [id |-> userId, expiresIn |-> "1d"]

\* ------------------------------------------------------------------ errors

ErrDuplicate == "Usuário já está cadastrado"
ErrMissing == "Email e senha são obrigatórios"
ErrEmailNotFound == "Email não encontrado"
ErrInvalid == "Invalid credentials"
ErrUpdateNotFound == "Usuário não encontrado!"
ErrDeleteNotFound == "usuário não encontrado!"
ErrRepoNotFound == "User not found"
ErrDeleteFailed == "Failed to delete user"
\* raised by the collection's unique index on email
ErrDuplicateKey == "E11000 duplicate key error"

\* ------------------------------------------------------------------ collection

Matching(st, f, v) == {i \in DOMAIN st : st[i][f] = v}

\* repository.findOne({ where: { f: v } })
findOne(st, f, v) ==
  IF Matching(st, f, v) = {} THEN <<>> ELSE <<st[Min(Matching(st, f, v))]>>

\* $set of the supplied fields on one document
Merge(doc, data) ==
  [k \in DOMAIN doc |-> IF k \in DOMAIN data THEN data[k] ELSE doc[k]]

\* the unique index on email: no two documents hold the same email string
UniqueEmail(st) ==
  \A i, j \in DOMAIN st : st[i].email = st[j].email => i = j

\* repository.update({ f: v }, data): updateMany with $set
dbUpdate(st, f, v, data) ==
  LET upd == [i \in DOMAIN st |->
                IF st[i][f] = v THEN Merge(st[i], data) ELSE st[i]]
  IN IF UniqueEmail(upd)
       THEN [ok |-> TRUE, store |-> upd]
       ELSE [ok |-> FALSE, store |-> st]

\* a fault: the collection is emptied when a document matches
Without_Clear(st, f, v) ==
  IF \E i \in DOMAIN st : st[i][f] = v THEN <<>> ELSE st

RECURSIVE Without(_, _, _)
Without(st, f, v) ==
  IF st = <<>> THEN <<>>
  ELSE IF Head(st)[f] = v THEN Without(Tail(st), f, v)
       ELSE <<Head(st)>> \o Without(Tail(st), f, v)

\* a fault: one document is reported removed whatever was matched
dbDelete_AlwaysAffected(st, f, v) ==
  [affected |-> 1, store |-> Without(st, f, v)]

\* repository.delete({ f: v }): deleteMany, reports the number removed
dbDelete(st, f, v) ==
  [affected |-> Cardinality(Matching(st, f, v)), store |-> Without(st, f, v)]

\* ------------------------------------------------------------------ UserRepository

\* a fault: the collection has no unique index on email
create_NoUniqueIndex(st, user, n) ==
  LET doc == [_id |-> ObjectId(n), id |-> UuidString(n),
              name |-> user.name, email |-> user.email,
              password |-> user.password,
              description |-> user.description, imageUrl |-> user.imageUrl]
  IN [ok |-> TRUE, store |-> Append(st, doc), ret |-> <<doc>>]

\* create(user): repository.create + save (insertOne, ids generated)
create(st, user, n) ==
  LET doc == [_id |-> ObjectId(n), id |-> UuidString(n),
              name |-> user.name, email |-> user.email,
              password |-> user.password,
              description |-> user.description, imageUrl |-> user.imageUrl]
  IN IF Matching(st, "email", doc.email) # {}
       THEN [ok |-> FALSE, store |-> st, ret |-> <<>>]
       ELSE [ok |-> TRUE, store |-> Append(st, doc), ret |-> <<doc>>]

\* a fault: no second lookup by the surrogate id
findById_NativeOnly(st, id) ==
  IF IsObjectIdString(id) THEN findOne(st, "_id", NewObjectId(id)) ELSE <<>>

findById(st, id) ==
  IF IsObjectIdString(id) /\ findOne(st, "_id", NewObjectId(id)) # <<>>
    THEN findOne(st, "_id", NewObjectId(id))
    ELSE findOne(st, "id", id)

findByEmail(st, email) == findOne(st, "email", toLowerCase(email))

findByName(st, name) == findOne(st, "name", name)

\* update(id, userData)
update(st, id, userData) ==
  LET byOid == IF IsObjectIdString(id)
                 THEN dbUpdate(st, "_id", NewObjectId(id), userData)
                 ELSE [ok |-> FALSE, store |-> st]
      st1 == byOid.store
      found1 == IF byOid.ok THEN findById(st1, id) ELSE <<>>
      byId == dbUpdate(st1, "id", id, userData)
      st2 == byId.store
      found2 == findById(st2, id)
  IN IF found1 # <<>>
       THEN [store |-> st1, out |-> "ok", ret |-> found1]
     ELSE IF ~byId.ok
       THEN [store |-> st1, out |-> ErrDuplicateKey, ret |-> <<>>]
     ELSE IF found2 = <<>>
       THEN [store |-> st2, out |-> ErrRepoNotFound, ret |-> <<>>]
     ELSE [store |-> st2, out |-> "ok", ret |-> found2]

\* a fault: the document is removed and the removal reported as failed
delete_ReportsFailure(st, id) ==
  LET d1 == IF IsObjectIdString(id)
              THEN dbDelete(st, "_id", NewObjectId(id))
              ELSE [affected |-> 0, store |-> st]
      d2 == dbDelete(d1.store, "id", id)
  IN [store |-> d2.store, out |-> ErrDeleteFailed]

\* delete(id)
delete(st, id) ==
  LET d1 == IF IsObjectIdString(id)
              THEN dbDelete(st, "_id", NewObjectId(id))
              ELSE [affected |-> 0, store |-> st]
      d2 == dbDelete(d1.store, "id", id)
      \* the catch block runs when new ObjectId throws and when the try
      \* block itself throws 'Failed to delete user'
      d3 == dbDelete(d2.store, "id", id)
  IN IF IsObjectIdString(id) /\ d1.affected # 0
       THEN [store |-> d1.store, out |-> "ok"]
     ELSE IF IsObjectIdString(id) /\ d2.affected # 0
       THEN [store |-> d2.store, out |-> "ok"]
     ELSE IF IsObjectIdString(id)
       THEN [store |-> d3.store,
             out |-> IF d3.affected = 0 THEN ErrDeleteFailed ELSE "ok"]
     ELSE [store |-> d2.store,
           out |-> IF d2.affected = 0 THEN ErrDeleteFailed ELSE "ok"]

\* a fault: the view keeps the password
UserView_WithPassword(user) ==
  [id |-> IF user._id # Undefined THEN ObjectIdToString(user._id) ELSE user.id,
   name |-> user.name, email |-> user.email, password |-> user.password,
   description |-> user.description, imageUrl |-> user.imageUrl]

\* list()
UserView(user) ==
  [id |-> IF user._id # Undefined THEN ObjectIdToString(user._id) ELSE user.id,
   name |-> user.name, email |-> user.email,
   description |-> user.description, imageUrl |-> user.imageUrl]

\* a fault: the newest document comes first
list_NewestFirst(st) == [i \in DOMAIN st |-> UserView(st[Len(st) + 1 - i])]

list(st) == [i \in DOMAIN st |-> UserView(st[i])]

\* ------------------------------------------------------------------ UserService

\* a fault: only the name is converted
normalizedUserData_NameOnly(userData) ==
  [k \in DOMAIN userData |->
     IF k = "name" THEN toLowerCase(userData[k]) ELSE userData[k]]

\* { ...userData, name: name.toLowerCase(), email: email.toLowerCase() }
normalizedUserData(userData) ==
  [k \in DOMAIN userData |->
     IF k \in {"name", "email"} THEN toLowerCase(userData[k])
     ELSE userData[k]]

createUser(st, userData, salt, n) ==
  LET normalized == normalizedUserData(userData)
      existingUserByEmail == findByEmail(st, normalized.email)
      hashedPassword == hash(normalized.password, salt)
      created == create(st,
                        [name |-> normalized.name,
                         email |-> normalized.email,
                         password |-> hashedPassword,
                         description |-> Get(normalized, "description"),
                         imageUrl |-> Get(userData, "imageBase64")], n)
  IN IF existingUserByEmail # <<>>
       THEN [store |-> st, out |-> ErrDuplicate, ret |-> <<>>,
             calls |-> <<"findByEmail">>]
     ELSE IF ~created.ok
       THEN [store |-> st, out |-> ErrDuplicateKey, ret |-> <<>>,
             calls |-> <<"findByEmail", "hash", "create">>]
     ELSE [store |-> created.store, out |-> "ok",
           ret |-> <<UserView(created.ret[1])>>,
           calls |-> <<"findByEmail", "hash", "create">>]

\* a fault: the account is looked up before the credentials are checked
authenticateUser_LookupFirst(st, email, password) ==
  LET user == findByEmail(st, toLowerCase(email))
  IN IF user = <<>>
       THEN [store |-> st, out |-> ErrEmailNotFound, ret |-> <<>>,
             calls |-> <<"findByEmail">>]
     ELSE IF ~Truthy(email) \/ ~Truthy(password)
       THEN [store |-> st, out |-> ErrMissing, ret |-> <<>>,
             calls |-> <<"findByEmail">>]
     ELSE IF ~compare(password, user[1].password)
       THEN [store |-> st, out |-> ErrInvalid, ret |-> <<>>,
             calls |-> <<"findByEmail", "compare">>]
     ELSE [store |-> st, out |-> "ok",
           ret |-> <<[user |-> UserView(user[1]),
                      token |-> sign(UserView(user[1]).id)]>>,
           calls |-> <<"findByEmail", "compare", "sign">>]

\* a fault: a successful authentication stores the password hashed anew
authenticateUser_Rehash(st, email, password) ==
  LET user == findByEmail(st, toLowerCase(email))
      rehashed == [i \in DOMAIN st |->
                     IF st[i] = user[1]
                       THEN [st[i] EXCEPT !.password = hash(password, "s2")]
                       ELSE st[i]]
  IN IF ~Truthy(email) \/ ~Truthy(password)
       THEN [store |-> st, out |-> ErrMissing, ret |-> <<>>, calls |-> <<>>]
     ELSE IF user = <<>>
       THEN [store |-> st, out |-> ErrEmailNotFound, ret |-> <<>>,
             calls |-> <<"findByEmail">>]
     ELSE IF ~compare(password, user[1].password)
       THEN [store |-> st, out |-> ErrInvalid, ret |-> <<>>,
             calls |-> <<"findByEmail", "compare">>]
     ELSE [store |-> rehashed, out |-> "ok",
           ret |-> <<[user |-> UserView(user[1]),
                      token |-> sign(UserView(user[1]).id)]>>,
           calls |-> <<"findByEmail", "compare", "sign">>]

authenticateUser(st, email, password) ==
  LET normalizedEmail == toLowerCase(email)
      user == findByEmail(st, normalizedEmail)
  IN IF ~Truthy(email) \/ ~Truthy(password)
       THEN [store |-> st, out |-> ErrMissing, ret |-> <<>>, calls |-> <<>>]
     ELSE IF user = <<>>
       THEN [store |-> st, out |-> ErrEmailNotFound, ret |-> <<>>,
             calls |-> <<"findByEmail">>]
     ELSE IF ~compare(password, user[1].password)
       THEN [store |-> st, out |-> ErrInvalid, ret |-> <<>>,
             calls |-> <<"findByEmail", "compare">>]
     ELSE [store |-> st, out |-> "ok",
           ret |-> <<[user |-> UserView(user[1]),
                      token |-> sign(UserView(user[1]).id)]>>,
           calls |-> <<"findByEmail", "compare", "sign">>]

findUserByName(st, name) == findByName(st, toLowerCase(name))

findUserByEmail(st, email) == findByEmail(st, toLowerCase(email))

findUserById(st, id) == findById(st, id)

\* if (userData.name) userData.name = userData.name.toLowerCase()
lowerName(userData) ==
  [k \in DOMAIN userData |->
     IF k = "name" /\ Truthy(userData[k])
       THEN toLowerCase(userData[k]) ELSE userData[k]]

\* imageUrl is the supplied image or else that of existingUser (the result
\* of the second findById); imageBase64 is removed
withImageUrl(userData, existingUser) ==
  LET imageUrl == IF Truthy(Get(userData, "imageBase64"))
                    THEN <<userData.imageBase64>>
                  ELSE IF existingUser # <<>>
                    THEN <<existingUser[1].imageUrl>>
                  ELSE <<>>
      keys == (DOMAIN userData \ {"imageBase64"})
                \cup (IF imageUrl # <<>> THEN {"imageUrl"} ELSE {})
  IN [k \in keys |-> IF k = "imageUrl" /\ imageUrl # <<>>
                       THEN imageUrl[1] ELSE userData[k]]

\* the record handed to userRepository.update by updateUser
userDataToUpdate(st, id, userData) ==
  withImageUrl(lowerName(userData), findById(st, id))

\* a fault: the record goes to the repository without the account being
\* looked up first
updateUser_NoLookup(st, id, userData) ==
  LET data == userDataToUpdate(st, id, userData)
      r == update(st, id, data)
      reads == IF Truthy(Get(userData, "imageBase64"))
                 THEN <<>> ELSE <<"findById">>
  IN [store |-> r.store, out |-> r.out, ret |-> r.ret,
      calls |-> Append(reads, "update"), data |-> <<data>>]

\* a fault: the repository's update is called again when it fails
updateUser_RetryOnce(st, id, userData) ==
  LET user == findById(st, id)
      data == userDataToUpdate(st, id, userData)
      r1 == update(st, id, data)
      r == IF r1.out = "ok" THEN r1 ELSE update(r1.store, id, data)
      reads == IF Truthy(Get(userData, "imageBase64"))
                 THEN <<"findById">> ELSE <<"findById", "findById">>
  IN IF user = <<>>
       THEN [store |-> st, out |-> ErrUpdateNotFound, ret |-> <<>>,
             calls |-> <<"findById">>, data |-> <<>>]
     ELSE [store |-> r.store, out |-> r.out, ret |-> r.ret,
           calls |-> IF r1.out = "ok" THEN Append(reads, "update")
                     ELSE reads \o <<"update", "update">>,
           data |-> <<data>>]

updateUser(st, id, userData) ==
  LET user == findById(st, id)
      data == userDataToUpdate(st, id, userData)
      r == update(st, id, data)
      reads == IF Truthy(Get(userData, "imageBase64"))
                 THEN <<"findById">> ELSE <<"findById", "findById">>
  IN IF user = <<>>
       THEN [store |-> st, out |-> ErrUpdateNotFound, ret |-> <<>>,
             calls |-> <<"findById">>, data |-> <<>>]
     ELSE [store |-> r.store, out |-> r.out, ret |-> r.ret,
           calls |-> Append(reads, "update"), data |-> <<data>>]

\* a fault: the repository is asked to delete without the account being
\* looked up first
deleteUser_NoLookup(st, id) ==
  LET r == delete(st, id)
  IN [store |-> r.store, out |-> r.out, ret |-> <<>>,
      calls |-> <<"delete">>]

deleteUser(st, id) ==
  LET user == findById(st, id)
      r == delete(st, id)
  IN IF user = <<>>
       THEN [store |-> st, out |-> ErrDeleteNotFound, ret |-> <<>>,
             calls |-> <<"findById">>]
     ELSE [store |-> r.store, out |-> r.out, ret |-> <<>>,
           calls |-> <<"findById", "delete">>]

listUsers(st) == list(st)

\* ------------------------------------------------------------------ UserController
\* A handler is given the store and the request (params, headers, body) and
\* gives the store, the outcome and the calls of the service method it
\* called (out is "" when it called none) and the response it sent.

RECURSIVE TrimStart(_)
TrimStart(s) ==
  IF s # <<>> /\ Head(s) = " " THEN TrimStart(Tail(s)) ELSE s

RECURSIVE TrimEnd(_)
TrimEnd(s) ==
  IF s # <<>> /\ s[Len(s)] = " "
    THEN TrimEnd(SubSeq(s, 1, Len(s) - 1)) ELSE s

\* String.prototype.trim
trim(s) == TrimEnd(TrimStart(s))

\* res.status(status).json(body) / .send(body)
Send(st, out, calls, status, kind, body) ==
  [store |-> st, out |-> out, calls |-> calls,
   response |-> [status |-> status, kind |-> kind, body |-> body]]

Reject(st, status, message) ==
  Send(st, "", <<>>, status, "object", [message |-> message])

\* const userResponse = { id: user.id, name: user.name, ... }
userResponse(user) ==
  [id |-> user.id, name |-> user.name, email |-> user.email,
   description |-> user.description, imageUrl |-> user.imageUrl]

UserController_create(st, req, salt, n) ==
  LET name == Get(req.body, "name")
      email == Get(req.body, "email")
      password == Get(req.body, "password")
      r == createUser(st, [name |-> name, email |-> email,
                           password |-> password,
                           description |-> Get(req.body, "description"),
                           imageBase64 |-> Get(req.body, "imageBase64")],
                      salt, n)
  IN IF ~Truthy(name) \/ trim(name) = <<>>
       THEN Reject(st, 400, "Nome é obrigatório e não pode ser vazio")
     ELSE IF ~Truthy(email) \/ trim(email) = <<>>
       THEN Reject(st, 400, "Email é obrigatório e não pode ser vazio")
     ELSE IF ~Truthy(password)
       THEN Reject(st, 400, "Senha é obrigatória")
     ELSE IF r.out = "ok"
       THEN Send(r.store, r.out, r.calls, 201, "object",
                 userResponse(r.ret[1]))
     ELSE IF r.out = "Usuário já está cadastrado"
       THEN Send(r.store, r.out, r.calls, 400, "object",
                 [message |-> "Este email já está cadastrado no sistema"])
     ELSE Send(r.store, r.out, r.calls, 500, "object",
               [message |-> "Internal server error", error |-> r.out])

UserController_update(st, req) ==
  LET id == Get(req.body, "id")
      r == updateUser(st, id, [name |-> Get(req.body, "name"),
                               description |-> Get(req.body, "description"),
                               imageBase64 |-> Get(req.body, "imageBase64")])
  IN IF ~Truthy(id)
       THEN Reject(st, 400, "ID do usuário é obrigatório")
     ELSE IF r.out = "ok"
       THEN Send(r.store, r.out, r.calls, 200, "object",
                 userResponse(r.ret[1]))
     ELSE IF r.out = "usuário não encontrado!"
       THEN Send(r.store, r.out, r.calls, 404, "object", [message |-> r.out])
     ELSE IF r.out = "Nome já está em uso"
       THEN Send(r.store, r.out, r.calls, 400, "object", [message |-> r.out])
     ELSE Send(r.store, r.out, r.calls, 500, "object",
               [message |-> "Internal server error"])

UserController_authenticate(st, req) ==
  LET email == Get(req.body, "email")
      password == Get(req.body, "password")
      r == authenticateUser(st, email, password)
  IN IF ~Truthy(email) \/ ~Truthy(password)
       THEN Reject(st, 400, "Email e senha são obrigatórios")
     ELSE IF r.out = "ok"
       THEN Send(r.store, r.out, r.calls, 200, "object", r.ret[1])
     ELSE IF r.out \in {"Email não encontrado", "Senha incorreta"}
       THEN Send(r.store, r.out, r.calls, 401, "object", [message |-> r.out])
     ELSE IF r.out = "Email e senha são obrigatórios"
       THEN Send(r.store, r.out, r.calls, 400, "object", [message |-> r.out])
     ELSE Send(r.store, r.out, r.calls, 500, "object",
               [message |-> "Internal server error", error |-> r.out])

UserController_list(st, req) ==
  Send(st, "ok", <<"list">>, 200, "array", listUsers(st))

UserController_delete(st, req) ==
  LET r == deleteUser(st, req.params.id)
  IN IF r.out = "ok"
       THEN Send(r.store, r.out, r.calls, 204, "text",
                 "Usuário excluído com sucesso")
     ELSE IF r.out = "usuário não encontrado!"
       THEN Send(r.store, r.out, r.calls, 404, "object", [message |-> r.out])
     ELSE Send(r.store, r.out, r.calls, 500, "object",
               [message |-> "Internal server error"])

\* ------------------------------------------------------------------ inputs

CreateInputs ==
  {[name |-> n, email |-> e, password |-> p, description |-> d,
    imageBase64 |-> i]
     : n \in NameInputs, e \in EmailInputs, p \in PasswordInputs,
       d \in DescriptionInputs, i \in ImageInputs}

\* Partial<User> & { imageBase64? }: any subset of the fields may be supplied
UpdateInputs ==
  {[x \in {} |-> Undefined]}
    \cup {[name |-> n] : n \in NewNameInputs}
    \cup {[email |-> e] : e \in EmailInputs}
    \cup {[password |-> p] : p \in NewPasswordInputs}
    \cup {[name |-> n, imageBase64 |-> i]
            : n \in NewNameInputs, i \in ImageInputs}

\* the names and emails given to createUser and updateUser, as given and
\* in lowercase
FindNameInputs ==
  LET given == NameInputs \cup NewNameInputs
  IN given \cup {toLowerCase(n) : n \in given}

FindEmailInputs == EmailInputs \cup {toLowerCase(e) : e \in EmailInputs}

\* the ObjectId strings of the accounts, and one id that is no ObjectId
\* string (the surrogate id of the first account)
IdInputs == {HexString(n) : n \in 1..MaxUsers} \cup {UuidString(1)}

AuthInputs ==
  {<<e, p>> : e \in EmailInputs, p \in PasswordInputs \cup NewPasswordInputs}
    \cup {<<(<<>>), p>> : p \in PasswordInputs}
    \cup {<<e, <<>> >> : e \in EmailInputs}

\* ------------------------------------------------------------------ actions

\* the arguments of a call that takes none
NoArgs == [x \in {} |-> Undefined]

Result(op, args, r) ==
  [op |-> op, args |-> args, out |-> r.out, ret |-> r.ret, calls |-> r.calls,
   data |-> IF "data" \in DOMAIN r THEN r.data ELSE <<>>]

\* the record of the successful createUser calls: one more email after a
\* successful createUser, given up once another call has written to the store
HistoryAfterCreate(r, userData) ==
  IF r.out = "ok" /\ history.onlyCreates
    THEN [history EXCEPT !.emails = Append(@, userData.email)]
    ELSE history

NoHistory == [onlyCreates |-> FALSE, emails |-> <<>>]

HistoryAfterWrite(r) ==
  IF r.out = "ok" \/ r.store # store THEN NoHistory ELSE history

Init ==
  /\ store = <<>>
  /\ nextId = 0
  /\ res = [op |-> "init", args |-> <<>>, out |-> "ok", ret |-> <<>>,
            calls |-> <<>>, data |-> <<>>]
  /\ procs = <<>>
  /\ history = [onlyCreates |-> TRUE, emails |-> <<>>]

CreateUser ==
  \E userData \in CreateInputs, salt \in Salts :
    /\ nextId < MaxUsers
    /\ LET r == createUser(store, userData, salt, nextId + 1)
       IN /\ store' = r.store
          /\ nextId' = IF r.out = "ok" THEN nextId + 1 ELSE nextId
          /\ res' = Result("createUser", [userData |-> userData], r)
          /\ history' = HistoryAfterCreate(r, userData)
    /\ UNCHANGED procs

AuthenticateUser ==
  \E in \in AuthInputs :
    LET r == authenticateUser(store, in[1], in[2])
    IN /\ store' = r.store
       /\ res' = Result("authenticateUser",
                        [email |-> in[1], password |-> in[2]], r)
       /\ UNCHANGED <<nextId, procs, history>>

UpdateUser ==
  \E id \in IdInputs, userData \in UpdateInputs :
    LET r == updateUser(store, id, userData)
    IN /\ store' = r.store
       /\ res' = Result("updateUser", [id |-> id, userData |-> userData], r)
       /\ history' = HistoryAfterWrite(r)
       /\ UNCHANGED <<nextId, procs>>

DeleteUser ==
  \E id \in IdInputs :
    LET r == deleteUser(store, id)
    IN /\ store' = r.store
       /\ res' = Result("deleteUser", [id |-> id], r)
       /\ history' = HistoryAfterWrite(r)
       /\ UNCHANGED <<nextId, procs>>

FindUserById ==
  \E id \in IdInputs :
    /\ res' = [op |-> "findUserById", args |-> [id |-> id], out |-> "ok",
               ret |-> findUserById(store, id), calls |-> <<"findById">>,
               data |-> <<>>]
    /\ UNCHANGED <<store, nextId, procs, history>>

FindUserByName ==
  \E name \in FindNameInputs :
    /\ res' = [op |-> "findUserByName", args |-> [name |-> name],
               out |-> "ok", ret |-> findUserByName(store, name),
               calls |-> <<"findByName">>, data |-> <<>>]
    /\ UNCHANGED <<store, nextId, procs, history>>

FindUserByEmail ==
  \E email \in FindEmailInputs :
    /\ res' = [op |-> "findUserByEmail", args |-> [email |-> email],
               out |-> "ok", ret |-> findUserByEmail(store, email),
               calls |-> <<"findByEmail">>, data |-> <<>>]
    /\ UNCHANGED <<store, nextId, procs, history>>

ListUsers ==
  /\ res' = [op |-> "listUsers", args |-> NoArgs, out |-> "ok",
             ret |-> <<listUsers(store)>>, calls |-> <<"list">>,
             data |-> <<>>]
  /\ UNCHANGED <<store, nextId, procs, history>>

Next ==
  \/ CreateUser
  \/ AuthenticateUser
  \/ UpdateUser
  \/ DeleteUser
  \/ FindUserById
  \/ FindUserByName
  \/ FindUserByEmail
  \/ ListUsers

Spec == Init /\ [][Next]_vars

\* ------------------------------------------------------------------ routes
\* The routes of the server: every request that matches is handed to the
\* handler of UserController as it came.

\* the Authorization header: absent (no element), or a token that
\* authenticateUser signed
TokenInputs == {<<>>, <<sign(HexString(1))>>}

Request(params, token, body) ==
  [params |-> params, headers |-> [authorization |-> token], body |-> body]

WithoutField(body, f) == [k \in DOMAIN body \ {f} |-> body[k]]

\* bodies of POST /users: complete ones, ones that lack a required field
\* and ones with a blank name
PostUsersBodies ==
  CreateInputs
    \cup {WithoutField(b, f) : b \in CreateInputs,
                               f \in {"name", "email", "password"}}
    \cup {[b EXCEPT !.name = <<" ">>] : b \in CreateInputs}

AuthenticateBodies == {[email |-> in[1], password |-> in[2]] : in \in AuthInputs}

\* bodies of PUT /users/:id: a name and a description, with or without an
\* image, with or without the id the handler reads
PutUsersBodies ==
  LET fields == {[name |-> n, description |-> d]
                   : n \in NewNameInputs, d \in DescriptionInputs}
                  \cup {[name |-> n, description |-> d, imageBase64 |-> i]
                          : n \in NewNameInputs, d \in DescriptionInputs,
                            i \in ImageInputs}
  IN {[k \in DOMAIN b \cup {"id"} |-> IF k = "id" THEN id ELSE b[k]]
        : b \in fields, id \in IdInputs}
       \cup {b \in fields : "imageBase64" \notin DOMAIN b}

HttpResult(op, req, r) ==
  [op |-> op, args |-> req, out |-> r.out, ret |-> <<r.response>>,
   calls |-> r.calls, data |-> <<>>]

\* app.post('/users', upload.single('image'), userController.create)
PostUsers ==
  \E body \in PostUsersBodies, salt \in Salts :
    /\ nextId < MaxUsers
    /\ LET req == Request(NoArgs, <<>>, body)
           r == UserController_create(store, req, salt, nextId + 1)
       IN /\ store' = r.store
          /\ nextId' = IF r.out = "ok" THEN nextId + 1 ELSE nextId
          /\ res' = HttpResult("POST /users", req, r)
          /\ history' = HistoryAfterCreate(r, body)
    /\ UNCHANGED procs

\* app.post('/users/authenticate', userController.authenticate)
PostUsersAuthenticate ==
  \E body \in AuthenticateBodies :
    LET req == Request(NoArgs, <<>>, body)
        r == UserController_authenticate(store, req)
    IN /\ store' = r.store
       /\ res' = HttpResult("POST /users/authenticate", req, r)
       /\ UNCHANGED <<nextId, procs, history>>

\* app.get('/users', userController.list)
GetUsers ==
  \E token \in TokenInputs :
    LET req == Request(NoArgs, token, NoArgs)
        r == UserController_list(store, req)
    IN /\ store' = r.store
       /\ res' = HttpResult("GET /users", req, r)
       /\ UNCHANGED <<nextId, procs, history>>

\* app.put('/users/:id', upload.single('image'), userController.update)
PutUsersId ==
  \E id \in IdInputs, token \in TokenInputs, body \in PutUsersBodies :
    LET req == Request([id |-> id], token, body)
        r == UserController_update(store, req)
    IN /\ store' = r.store
       /\ res' = HttpResult("PUT /users/:id", req, r)
       /\ history' = HistoryAfterWrite(r)
       /\ UNCHANGED <<nextId, procs>>

\* app.delete('/users/:id', userController.delete)
DeleteUsersId ==
  \E id \in IdInputs, token \in TokenInputs :
    LET req == Request([id |-> id], token, NoArgs)
        r == UserController_delete(store, req)
    IN /\ store' = r.store
       /\ res' = HttpResult("DELETE /users/:id", req, r)
       /\ history' = HistoryAfterWrite(r)
       /\ UNCHANGED <<nextId, procs>>

NextHttp ==
  \/ PostUsers
  \/ PostUsersAuthenticate
  \/ GetUsers
  \/ PutUsersId
  \/ DeleteUsersId

SpecHttp == Init /\ [][NextHttp]_vars

\* ------------------------------------------------------------------ concurrent updateUser
\* Two updateUser calls on a store that holds one account.  Each call runs
\* from one await to the next in one step; pc names the await it is at.

ConcurrentUpdateInputs ==
  {[x \in {} |-> Undefined]}
    \cup {[name |-> n] : n \in NewNameInputs}
    \cup {[imageBase64 |-> i] : i \in NewImageInputs}

InitUpd ==
  \E userData \in CreateInputs, salt \in Salts :
    LET r == createUser(<<>>, userData, salt, 1)
    IN /\ store = r.store
       /\ nextId = 1
       /\ res = Result("createUser", [userData |-> userData], r)
       /\ procs = <<>>
       /\ history = [onlyCreates |-> TRUE, emails |-> <<userData.email>>]

Goto(p, pc, data) == [procs EXCEPT ![p].pc = pc, ![p].data = data]

Done(p, out, ret) ==
  [procs EXCEPT ![p].pc = "done", ![p].out = out, ![p].ret = ret]

\* the await that follows the preparation of the record: update by _id, or
\* update by id when new ObjectId(id) throws
FirstUpdate(id) == IF IsObjectIdString(id) THEN "update" ELSE "updateById"

CallUpdateUser ==
  \E id \in IdInputs, userData \in ConcurrentUpdateInputs :
    /\ Len(procs) < Callers
    /\ procs' = Append(procs, [pc |-> "findUser", id |-> id,
                               userData |-> userData, data |-> <<>>,
                               out |-> "", ret |-> <<>>])
    /\ UNCHANGED <<store, nextId, res, history>>

\* const user = await this.userRepository.findById(id)
FindUser ==
  \E p \in DOMAIN procs :
    /\ procs[p].pc = "findUser"
    /\ LET c == procs[p]
       IN procs' =
            IF findById(store, c.id) = <<>>
              THEN Done(p, ErrUpdateNotFound, <<>>)
            ELSE IF Truthy(Get(c.userData, "imageBase64"))
              THEN Goto(p, FirstUpdate(c.id),
                        <<withImageUrl(lowerName(c.userData), <<>>)>>)
            ELSE Goto(p, "findExisting", <<>>)
    /\ UNCHANGED <<store, nextId, res, history>>

\* const existingUser = await this.userRepository.findById(id)
FindExisting ==
  \E p \in DOMAIN procs :
    /\ procs[p].pc = "findExisting"
    /\ LET c == procs[p]
       IN procs' = Goto(p, FirstUpdate(c.id),
                        <<withImageUrl(lowerName(c.userData),
                                       findById(store, c.id))>>)
    /\ UNCHANGED <<store, nextId, res, history>>

\* await this.repository.update({ _id: objectId }, userData)
UpdateByObjectId ==
  \E p \in DOMAIN procs :
    /\ procs[p].pc = "update"
    /\ LET c == procs[p]
           r == dbUpdate(store, "_id", NewObjectId(c.id), c.data[1])
       IN /\ store' = r.store
          /\ procs' = Goto(p, IF r.ok THEN "reread" ELSE "updateById", c.data)
    /\ history' = NoHistory
    /\ UNCHANGED <<nextId, res>>

\* const updatedUser = await this.findById(id), in the try block
Reread ==
  \E p \in DOMAIN procs :
    /\ procs[p].pc = "reread"
    /\ LET c == procs[p]
           updatedUser == findById(store, c.id)
       IN procs' = IF updatedUser # <<>>
                     THEN Done(p, "ok", updatedUser)
                     ELSE Goto(p, "updateById", c.data)
    /\ UNCHANGED <<store, nextId, res, history>>

\* await this.repository.update({ id }, userData)
UpdateById ==
  \E p \in DOMAIN procs :
    /\ procs[p].pc = "updateById"
    /\ LET c == procs[p]
           r == dbUpdate(store, "id", c.id, c.data[1])
       IN /\ store' = r.store
          /\ procs' = IF r.ok THEN Goto(p, "rereadById", c.data)
                             ELSE Done(p, ErrDuplicateKey, <<>>)
    /\ history' = NoHistory
    /\ UNCHANGED <<nextId, res>>

\* const updatedUser = await this.findById(id), after the try block
RereadById ==
  \E p \in DOMAIN procs :
    /\ procs[p].pc = "rereadById"
    /\ LET updatedUser == findById(store, procs[p].id)
       IN procs' = IF updatedUser # <<>>
                     THEN Done(p, "ok", updatedUser)
                     ELSE Done(p, ErrRepoNotFound, <<>>)
    /\ UNCHANGED <<store, nextId, res, history>>

NextUpd ==
  \/ CallUpdateUser
  \/ FindUser
  \/ FindExisting
  \/ UpdateByObjectId
  \/ Reread
  \/ UpdateById
  \/ RereadById

SpecUpd == InitUpd /\ [][NextUpd]_vars

\* ------------------------------------------------------------------ concurrent deleteUser
\* deleteUser calls on a store that holds one account per email of
\* EmailInputs.  Each call runs from one await to the next in one step.

InitDel ==
  \E first \in CreateInputs, second \in CreateInputs, salt \in Salts :
    LET r1 == createUser(<<>>, first, salt, 1)
        r2 == createUser(r1.store, second, salt, 2)
    IN /\ r2.out = "ok"
       /\ store = r2.store
       /\ nextId = 2
       /\ res = Result("createUser", [userData |-> second], r2)
       /\ procs = <<>>
       /\ history = [onlyCreates |-> TRUE,
                     emails |-> <<first.email, second.email>>]

CallDeleteUser ==
  \E id \in IdInputs :
    /\ Len(procs) < Callers
    /\ procs' = Append(procs, [pc |-> "findToDelete", id |-> id,
                               userData |-> NoArgs, data |-> <<>>,
                               out |-> "", ret |-> <<>>])
    /\ UNCHANGED <<store, nextId, res, history>>

\* const user = await this.userRepository.findById(id)
FindToDelete ==
  \E p \in DOMAIN procs :
    /\ procs[p].pc = "findToDelete"
    /\ LET c == procs[p]
       IN procs' =
            IF findById(store, c.id) = <<>>
              THEN Done(p, ErrDeleteNotFound, <<>>)
            ELSE IF IsObjectIdString(c.id)
              THEN Goto(p, "deleteByObjectId", <<>>)
            ELSE Goto(p, "deleteInCatch", <<>>)
    /\ UNCHANGED <<store, nextId, res, history>>

\* const result = await this.repository.delete({ _id: objectId })
DeleteByObjectId ==
  \E p \in DOMAIN procs :
    /\ procs[p].pc = "deleteByObjectId"
    /\ LET r == dbDelete(store, "_id", NewObjectId(procs[p].id))
       IN /\ store' = r.store
          /\ procs' = IF r.affected = 0
                        THEN Goto(p, "deleteById", <<>>)
                        ELSE Done(p, "ok", <<>>)
          /\ history' = IF r.affected = 0 THEN history ELSE NoHistory
    /\ UNCHANGED <<nextId, res>>

\* const resultById = await this.repository.delete({ id }), in the try
\* block; its 'Failed to delete user' is caught by the catch block
DeleteById ==
  \E p \in DOMAIN procs :
    /\ procs[p].pc = "deleteById"
    /\ LET r == dbDelete(store, "id", procs[p].id)
       IN /\ store' = r.store
          /\ procs' = IF r.affected = 0
                        THEN Goto(p, "deleteInCatch", <<>>)
                        ELSE Done(p, "ok", <<>>)
          /\ history' = IF r.affected = 0 THEN history ELSE NoHistory
    /\ UNCHANGED <<nextId, res>>

\* const result = await this.repository.delete({ id }), in the catch block
DeleteInCatch ==
  \E p \in DOMAIN procs :
    /\ procs[p].pc = "deleteInCatch"
    /\ LET r == dbDelete(store, "id", procs[p].id)
       IN /\ store' = r.store
          /\ procs' = IF r.affected = 0
                        THEN Done(p, ErrDeleteFailed, <<>>)
                        ELSE Done(p, "ok", <<>>)
          /\ history' = IF r.affected = 0 THEN history ELSE NoHistory
    /\ UNCHANGED <<nextId, res>>

NextDel ==
  \/ CallDeleteUser
  \/ FindToDelete
  \/ DeleteByObjectId
  \/ DeleteById
  \/ DeleteInCatch

SpecDel == InitDel /\ [][NextDel]_vars

\* ------------------------------------------------------------------ concurrent createUser
\* createUser calls on an empty store, with emails that are the same after
\* lowercasing.  Each call runs from one await to the next in one step.

ConcurrentCreateInputs ==
  {[name |-> n, email |-> e, password |-> p, description |-> d,
    imageBase64 |-> i]
     : n \in NameInputs,
       e \in EmailInputs \cup {toLowerCase(x) : x \in EmailInputs},
       p \in PasswordInputs, d \in DescriptionInputs, i \in ImageInputs}

CallCreateUser ==
  \E userData \in ConcurrentCreateInputs :
    /\ Len(procs) < Callers
    /\ procs' = Append(procs, [pc |-> "findByEmail", id |-> Undefined,
                               userData |-> userData, data |-> <<>>,
                               out |-> "", ret |-> <<>>])
    /\ UNCHANGED <<store, nextId, res, history>>

\* const existingUserByEmail = await this.userRepository.findByEmail(...)
FindExistingByEmail ==
  \E p \in DOMAIN procs :
    /\ procs[p].pc = "findByEmail"
    /\ LET normalized == normalizedUserData(procs[p].userData)
       IN procs' = IF findByEmail(store, normalized.email) # <<>>
                     THEN Done(p, ErrDuplicate, <<>>)
                     ELSE Goto(p, "hash", <<>>)
    /\ UNCHANGED <<store, nextId, res, history>>

\* const hashedPassword = await hash(normalizedUserData.password, 8)
HashPassword ==
  \E p \in DOMAIN procs, salt \in Salts :
    /\ procs[p].pc = "hash"
    /\ LET normalized == normalizedUserData(procs[p].userData)
       IN procs' = Goto(p, "create", <<hash(normalized.password, salt)>>)
    /\ UNCHANGED <<store, nextId, res, history>>

\* const user = await this.userRepository.create({ ... })
InsertUser ==
  \E p \in DOMAIN procs :
    /\ procs[p].pc = "create"
    /\ LET c == procs[p]
           normalized == normalizedUserData(c.userData)
           created == create(store,
                             [name |-> normalized.name,
                              email |-> normalized.email,
                              password |-> c.data[1],
                              description |-> Get(normalized, "description"),
                              imageUrl |-> Get(c.userData, "imageBase64")],
                             nextId + 1)
       IN /\ store' = created.store
          /\ nextId' = IF created.ok THEN nextId + 1 ELSE nextId
          /\ procs' = IF created.ok
                        THEN Done(p, "ok", <<UserView(created.ret[1])>>)
                        ELSE Done(p, ErrDuplicateKey, <<>>)
          /\ history' = IF created.ok /\ history.onlyCreates
                          THEN [history EXCEPT
                                  !.emails = Append(@, c.userData.email)]
                          ELSE history
    /\ UNCHANGED res

NextCreate ==
  \/ CallCreateUser
  \/ FindExistingByEmail
  \/ HashPassword
  \/ InsertUser

SpecCreate == Init /\ [][NextCreate]_vars

\* ------------------------------------------------------------------ properties

IsBcryptHash(h) == Len(h) > 2 /\ h[1] = BcryptPrefix

\* the fields of the stored document that a supplied field writes
StoredField(k) == IF k = "imageBase64" THEN "imageUrl" ELSE k

\* the documents other than the one the id resolves to
Others(st, id) ==
  {i \in DOMAIN st : findById(st, id) # <<>> /\ st[i] # findById(st, id)[1]}

\* C1: in every reachable state no two stored accounts have emails that are
\* equal when compared case-insensitively.
C1_EmailsUniqueIgnoringCase ==
  \A i, j \in DOMAIN store :
    toLowerCase(store[i].email) = toLowerCase(store[j].email) => i = j

\* C2: a createUser call whose email equals, in any letter casing, the email
\* of an existing account fails with 'Usuário já está cadastrado' and leaves
\* the store as it was.
C2_DuplicateCreateFails ==
  [][(/\ res'.op = "createUser"
      /\ \E i \in DOMAIN store :
           toLowerCase(store[i].email) = toLowerCase(res'.args.userData.email))
       => (res'.out = ErrDuplicate /\ store' = store)]_vars

\* C3: after a successful createUser(name, email, password) the account
\* written to the store and the account returned both have
\* name = lowercase(name) and email = lowercase(email).
C3_CreateStoresLowercase ==
  (res.op = "createUser" /\ res.out = "ok") =>
    /\ res.ret # <<>>
    /\ res.ret[1].name = toLowerCase(res.args.userData.name)
    /\ res.ret[1].email = toLowerCase(res.args.userData.email)
    /\ store # <<>>
    /\ ObjectIdToString(store[Len(store)]._id) = res.ret[1].id
    /\ store[Len(store)].name = toLowerCase(res.args.userData.name)
    /\ store[Len(store)].email = toLowerCase(res.args.userData.email)

C3_Witness ==
  /\ res.op = "createUser"
  /\ res.out = "ok"
  /\ res.args.userData.name # toLowerCase(res.args.userData.name)
  /\ res.args.userData.email # toLowerCase(res.args.userData.email)
  /\ Len(store) = 2

\* C4: no stored account's password equals a plaintext password that a
\* caller supplied; it is always an output of the credential hasher.
C4_PasswordsHashed ==
  \A i \in DOMAIN store :
    /\ store[i].password \notin PasswordInputs \cup NewPasswordInputs
    /\ IsBcryptHash(store[i].password)

\* C5: after a successful updateUser(id, {password: p2}) on an account with
\* email E created with password p1 # p2, authenticateUser(E, p2) succeeds
\* with a token and authenticateUser(E, p1) fails with 'Invalid credentials'.
C5_NewPasswordAuthenticates ==
  [][(/\ res.op = "updateUser"
      /\ res.out = "ok"
      /\ "password" \in DOMAIN res.args.userData
      /\ res'.op = "authenticateUser"
      /\ toLowerCase(res'.args.email) = res.ret[1].email
      /\ res'.args.password \in PasswordInputs \cup NewPasswordInputs)
       => IF res'.args.password = res.args.userData.password
            THEN res'.out = "ok" /\ res'.ret # <<>>
            ELSE res'.out = ErrInvalid]_vars

\* the accounts that authenticateUser(email, _) is about: stored under the
\* lowercased email with the hash of the password p, as createUser leaves them
CreatedWith(email, p) ==
  {i \in DOMAIN store :
     /\ store[i].email = toLowerCase(email)
     /\ \E salt \in Salts : store[i].password = hash(p, salt)}

AuthSucceedsFor(i) ==
  /\ res.out = "ok"
  /\ res.ret # <<>>
  /\ res.ret[1].token.id = ObjectIdToString(store[i]._id)
  /\ res.ret[1].user.id = ObjectIdToString(store[i]._id)
  /\ "password" \notin DOMAIN res.ret[1].user

C6_WitnessWrongPassword ==
  /\ res.op = "authenticateUser"
  /\ res.args.email # toLowerCase(res.args.email)
  /\ \E p \in PasswordInputs :
       /\ CreatedWith(res.args.email, p) # {}
       /\ res.args.password \notin {p, <<>>}
  /\ res.out = ErrInvalid

\* C7: authenticateUser checks in a fixed order: empty email or password
\* gives the missing-credentials error without querying the store; otherwise
\* no account under the lowercased email gives the email-not-found error
\* without verifying a password; only otherwise can it give the
\* invalid-credentials error; each call ends in exactly one of these or
\* in success.
C7_AuthCheckOrder ==
  res.op = "authenticateUser" =>
    LET missing == res.args.email = <<>> \/ res.args.password = <<>>
        known == \E i \in DOMAIN store :
                   store[i].email = toLowerCase(res.args.email)
    IN /\ res.out \in {ErrMissing, ErrEmailNotFound, ErrInvalid, "ok"}
       /\ missing <=> res.out = ErrMissing
       /\ res.out = ErrMissing => res.calls = <<>>
       /\ (~missing /\ ~known) <=> res.out = ErrEmailNotFound
       /\ res.out = ErrEmailNotFound =>
            \A k \in DOMAIN res.calls : res.calls[k] # "compare"
       /\ res.out \in {ErrInvalid, "ok"} =>
            (~missing /\ known /\ \E k \in DOMAIN res.calls :
                                     res.calls[k] = "compare")
       /\ res.out = "ok" <=> res.ret # <<>>

\* an empty password for the email of a stored account
C7_Witness ==
  /\ res.op = "authenticateUser"
  /\ res.args.password = <<>>
  /\ \E i \in DOMAIN store : store[i].email = toLowerCase(res.args.email)
  /\ res.out = ErrMissing

C7_WitnessNotFound ==
  /\ res.op = "authenticateUser"
  /\ store # <<>>
  /\ res.out = ErrEmailNotFound

ErrEmailInUse == "Email already in use"

\* C8: updateUser(id, {email: E}) fails with 'Email already in use' and
\* leaves the store unchanged whenever an account other than id already has
\* email E, compared case-insensitively.
C8_EmailInUseRejected ==
  [][(/\ res'.op = "updateUser"
      /\ "email" \in DOMAIN res'.args.userData
      /\ \E i \in Others(store, res'.args.id) :
           toLowerCase(store[i].email)
             = toLowerCase(res'.args.userData.email))
       => (res'.out = ErrEmailInUse /\ store' = store)]_vars

\* C9: a successful updateUser changes only the fields the caller supplied:
\* every other field of the account is the same after the call as before,
\* and the partial record handed to the store's update contains no field
\* the caller did not supply.
C9_OnlySuppliedFields ==
  [][(res'.op = "updateUser" /\ res'.out = "ok" /\ res' # res) =>
       LET supplied == {StoredField(k) : k \in DOMAIN res'.args.userData}
           before == findById(store, res'.args.id)[1]
           after == findById(store', res'.args.id)[1]
       IN /\ \A k \in DOMAIN before \ supplied : after[k] = before[k]
          /\ DOMAIN res'.data[1] \subseteq supplied]_vars

\* C10: two concurrent updateUser calls on the same account, one supplying
\* a new image and the other supplying none: once both calls have completed,
\* the stored image is the newly supplied one.
C10_OmissionKeepsNewImage ==
  \A p, q \in DOMAIN procs :
    (/\ procs[p].pc = "done" /\ procs[p].out = "ok"
     /\ procs[q].pc = "done" /\ procs[q].out = "ok"
     /\ procs[p].ret[1]._id = procs[q].ret[1]._id
     /\ Truthy(Get(procs[p].userData, "imageBase64"))
     /\ ~Truthy(Get(procs[q].userData, "imageBase64")))
      => \A i \in DOMAIN store :
           store[i]._id = procs[p].ret[1]._id
             => store[i].imageUrl = procs[p].userData.imageBase64

\* C11: in every state reachable by createUser and updateUser calls, the name
\* and the email of every stored account are entirely lowercase.
C11_StoredNamesAndEmailsLowercase ==
  \A i \in DOMAIN store :
    /\ store[i].name = toLowerCase(store[i].name)
    /\ store[i].email = toLowerCase(store[i].email)

AccountOf(id) == ObjectId(id[2])

Stored(oid) == \E i \in DOMAIN store : store[i]._id = oid

\* the deleteUser calls on the account oid that have completed / succeeded
DeletesOf(oid) == {p \in DOMAIN procs : AccountOf(procs[p].id) = oid}
Completed(P) == {p \in P : procs[p].pc = "done"}
Succeeded(P) == {p \in P : procs[p].pc = "done" /\ procs[p].out = "ok"}

\* C14: under every interleaving of concurrent deleteUser calls on the same
\* existing account, exactly one call completes successfully; every other
\* fails with 'usuário não encontrado!' or with 'Failed to delete user'; no
\* other account is removed.
C14_OneConcurrentDeleteSucceeds ==
  \A n \in 1..nextId :
    LET calls == DeletesOf(ObjectId(n))
    IN /\ Cardinality(Succeeded(calls)) <= 1
       /\ (calls # {} /\ Completed(calls) = calls)
            => Cardinality(Succeeded(calls)) = 1
       /\ \A p \in Completed(calls) :
            procs[p].out \in {"ok", ErrDeleteNotFound, ErrDeleteFailed}
       /\ Stored(ObjectId(n)) <=> Succeeded(calls) = {}

\* two calls on the same account have completed, one of them with
\* 'Failed to delete user', and the other account is still stored
C14_Witness ==
  /\ \E p, q \in DOMAIN procs :
       /\ p # q
       /\ AccountOf(procs[p].id) = AccountOf(procs[q].id)
       /\ procs[p].pc = "done" /\ procs[p].out = "ok"
       /\ procs[q].pc = "done" /\ procs[q].out = ErrDeleteFailed
  /\ Len(store) = 1

\* the createUser calls whose email is e after lowercasing
CreatesOf(e) ==
  {p \in DOMAIN procs : toLowerCase(procs[p].userData.email) = e}

\* C15: concurrent createUser calls with the same normalized email can all
\* pass the findByEmail check before any of them writes; with the unique
\* index on email at most one of them ends with an account stored, every
\* other one that completes ends with an error, and the store never holds
\* two accounts with that email.
C15_OneConcurrentCreateStores ==
  /\ \A i, j \in DOMAIN store : store[i].email = store[j].email => i = j
  /\ \A p \in DOMAIN procs :
       LET e == toLowerCase(procs[p].userData.email)
       IN /\ Cardinality(Succeeded(CreatesOf(e))) <= 1
          /\ Cardinality(Succeeded(CreatesOf(e)))
               = Cardinality(Matching(store, "email", e))
          /\ (procs[p].pc = "done" /\ procs[p].out # "ok")
               => /\ procs[p].out \in {ErrDuplicate, ErrDuplicateKey}
                  /\ procs[p].ret = <<>>
                  /\ Matching(store, "email", e) # {}

\* two calls with the same normalized email have both passed the check and
\* completed: one stored its account, the unique index refused the other
C15_Witness ==
  \E p, q \in DOMAIN procs :
    /\ toLowerCase(procs[p].userData.email)
         = toLowerCase(procs[q].userData.email)
    /\ procs[p].userData.email # procs[q].userData.email
    /\ procs[p].pc = "done" /\ procs[p].out = "ok"
    /\ procs[q].pc = "done" /\ procs[q].out = ErrDuplicateKey
    /\ Len(store) = 1

Response == res.ret[1]

\* the requests that carry no token
Unauthenticated == res.args.headers.authorization = <<>>

\* C17: POST /users/authenticate answers 401, never 500, to a registered
\* email with a wrong password and to an unregistered email.
C17_AuthFailuresAre401 ==
  (/\ res.op = "POST /users/authenticate"
   /\ Truthy(res.args.body.email)
   /\ Truthy(res.args.body.password)
   /\ \/ findByEmail(store, res.args.body.email) = <<>>
      \/ ~compare(res.args.body.password,
                  findByEmail(store, res.args.body.email)[1].password))
    => Response.status = 401

\* C18: the account-not-found error that the service raises for an unknown
\* id is answered with 404, never 500, by PUT /users/:id and by
\* DELETE /users/:id.
C18_UnknownIdIs404 ==
  (/\ res.op \in {"PUT /users/:id", "DELETE /users/:id"}
   /\ res.out \in {ErrUpdateNotFound, ErrDeleteNotFound})
    => Response.status = 404

C20_ProtectedRoutesRequireToken ==
  (res.op \in {"GET /users", "PUT /users/:id", "DELETE /users/:id"}
     /\ Unauthenticated)
    => (Response.status = 401 /\ res.calls = <<>>)

\* C21: a PUT /users/:id request updates the account that the :id path
\* parameter identifies and no other account, whatever the body contains.
C21_PutUpdatesPathAccount ==
  [][res'.op = "PUT /users/:id" =>
       LET target == findById(store, res'.args.params.id)
       IN /\ Len(store') = Len(store)
          /\ \A i \in DOMAIN store :
               (target = <<>> \/ store[i] # target[1]) => store'[i] = store[i]
          /\ res'.ret[1].status = 200 => target # <<>>]_vars

\* C22: createUser fails with 'Usuário já está cadastrado' and writes
\* nothing when an account with the same lowercased name already exists,
\* even if the email is new.
C22_DuplicateNameCreateFails ==
  [][(/\ res'.op = "createUser"
      /\ \E i \in DOMAIN store :
           store[i].name = toLowerCase(res'.args.userData.name))
       => (res'.out = ErrDuplicate /\ store' = store)]_vars

\* the identifiers of the stored accounts
ActiveIds(st) == {st[i]._id : i \in DOMAIN st}

C24_FindIgnoresCase ==
  /\ res.op = "findUserByName" =>
       /\ res.out = "ok"
       /\ \A i \in DOMAIN store :
            store[i].name = toLowerCase(res.args.name)
              => res.ret = <<store[i]>>
       /\ (\A i \in DOMAIN store :
             store[i].name # toLowerCase(res.args.name)) => res.ret = <<>>
  /\ res.op = "findUserByEmail" =>
       /\ res.out = "ok"
       /\ \A i \in DOMAIN store :
            store[i].email = toLowerCase(res.args.email)
              => res.ret = <<store[i]>>
       /\ (\A i \in DOMAIN store :
             store[i].email # toLowerCase(res.args.email)) => res.ret = <<>>

\* the repository methods that write
StoreWrites == {"create", "update", "delete"}
\* the errors the repository raises from a write
StoreErrors == {ErrDuplicateKey, ErrRepoNotFound, ErrDeleteFailed}

\* C25: within one createUser, updateUser or deleteUser call the repository's
\* create, update or delete is called at most once, it is the last call the
\* service makes, and an error it raises is the error of the service call.
C25_NoRetries ==
  res.op \in {"createUser", "updateUser", "deleteUser"} =>
    LET writes == {k \in DOMAIN res.calls : res.calls[k] \in StoreWrites}
    IN /\ Cardinality(writes) <= 1
       /\ \A k \in writes : k = Len(res.calls)
       /\ res.out \in StoreErrors => (writes # {} /\ res.ret = <<>>)
       /\ writes = {} => res.out \notin StoreErrors \cup {"ok"}

\* the repository's update has failed on the unique index
C25_Witness ==
  /\ res.op = "updateUser"
  /\ res.out = ErrDuplicateKey
  /\ res.calls[Len(res.calls)] = "update"

\* C26: findById(id) returns the account whose _id equals id when id has
\* the ObjectId format and such an account exists; otherwise the account
\* whose surrogate id equals id, or null if there is none; it raises no
\* error when id has not the ObjectId format.
C26_FindByIdResolves ==
  res.op = "findUserById" =>
    LET id == res.args.id
        native == {i \in DOMAIN store :
                     IsObjectIdString(id) /\ store[i]._id = NewObjectId(id)}
        surrogate == {i \in DOMAIN store : store[i].id = id}
    IN /\ res.out = "ok"
       /\ IF native # {} THEN \E i \in native : res.ret = <<store[i]>>
          ELSE IF surrogate # {}
            THEN \E i \in surrogate : res.ret = <<store[i]>>
          ELSE res.ret = <<>>

\* an id that has not the ObjectId format resolves by the surrogate id, while
\* another account is stored
C26_Witness ==
  /\ res.op = "findUserById"
  /\ ~IsObjectIdString(res.args.id)
  /\ res.ret # <<>>
  /\ res.ret[1].id = res.args.id
  /\ Len(store) = 2

\* C27: whenever UserRepository.update(id, fields) returns an account, it
\* is the account findById(id) resolves to and its stored fields equal the
\* supplied values for every supplied field, whether id matched by _id or by
\* the surrogate id; when neither key matches it fails with 'User not found'.
C27_UpdateReturnsUpdatedAccount ==
  /\ (res.op = "updateUser" /\ res.out = "ok") =>
       /\ res.ret = findById(store, res.args.id)
       /\ \A k \in DOMAIN res.data[1] : res.ret[1][k] = res.data[1][k]
  /\ \A id \in IdInputs, userData \in UpdateInputs :
       findById(store, id) = <<>> =>
         /\ update(store, id, userData).out = ErrRepoNotFound
         /\ update(store, id, userData).store = store

ReadOperations ==
  {"authenticateUser", "findUserById", "findUserByName", "findUserByEmail",
   "listUsers"}

\* C29: authenticateUser, findUserById, findUserByName, findUserByEmail and
\* listUsers never change the account store, whether they succeed or fail.
C29_ReadsLeaveStoreUnchanged ==
  [][res'.op \in ReadOperations => store' = store]_vars

\* a successful authentication while accounts are stored
C29_Witness ==
  /\ res.op = "authenticateUser"
  /\ res.out = "ok"
  /\ Len(store) = 2

\* createUser with the email E and the password q on the store st, and the
\* authentication with E and q that follows it
RecreatedWith(st, E, q) ==
  LET userData == [name |-> CHOOSE n \in NameInputs : TRUE, email |-> E,
                   password |-> q,
                   description |-> CHOOSE d \in DescriptionInputs : TRUE,
                   imageBase64 |-> CHOOSE i \in ImageInputs : TRUE]
      created == createUser(st, userData, CHOOSE salt \in Salts : TRUE,
                            nextId + 1)
  IN [createUser |-> created.out,
      authenticateUser |-> authenticateUser(created.store, E, q).out]

\* C30: after a successful deleteUser of the account holding email E,
\* authenticateUser(E, any password) fails with 'Email não encontrado', and
\* a later createUser with email E succeeds and yields an account on which
\* authentication with the new password succeeds.
C30_DeletedEmailIsFree ==
  [][(res'.op = "deleteUser" /\ res'.out = "ok") =>
       LET E == findUserById(store, res'.args.id)[1].email
       IN /\ \A p \in PasswordInputs \cup NewPasswordInputs :
               authenticateUser(store', E, p).out = ErrEmailNotFound
          /\ \A q \in NewPasswordInputs :
               /\ RecreatedWith(store', E, q).createUser = "ok"
               /\ RecreatedWith(store', E, q).authenticateUser = "ok"]_vars

====
